---- MODULE Spec2Model ----
(***************************************************************************)
(* typed-fastify: addSchema (service registration and the onRoute schema   *)
(* resolution hook) and the typed Reply contract.                          *)
(*                                                                         *)
(* Strings the code computes on (declaration keys, methods, paths, route   *)
(* labels) are sequences of one-character strings, so that split, join,    *)
(* toUpperCase and template concatenation are computed and not assumed.    *)
(* JavaScript objects are functions from property names to values; an      *)
(* optional value (possibly undefined) is a record [def, val].             *)
(***************************************************************************)
EXTENDS Integers, Sequences, FiniteSets, TLC

VARIABLES
  pc,                  \* position of addSchema: "start", "setup", "loop", "done", "failed"
  service,             \* opts.service, in for-in enumeration order
  jsonSchema,          \* opts.jsonSchema: [schema, fastify]
  swaggerSecurityMap,  \* opts.swaggerSecurityMap (optional)
  idx,                 \* index of the next entry of the for-in loop
  schemas,             \* documents handed to fastify.addSchema
  decorators,          \* names installed by decorateReply / decorateRequest
  hooks,               \* hooks installed by addHook, in order
  routes,              \* routes handed to fastify.route, in order, with their resolved schema
  error,               \* the Error addSchema threw, if any
  req,                 \* the request being handled
  reply,               \* ReplyState of that request: [status, headers, sent]
  handed,              \* (status, headers, payload) triples handed to the server's send primitive
  cur,                 \* static type of the value the handler's last reply call returned
  kept,                \* static type of a value of an earlier call the handler kept in a variable
  calls,               \* number of reply calls the handler has made for this request
  last                 \* the handler's last reply call and what became of it

startupVars == <<pc, service, jsonSchema, swaggerSecurityMap, idx, schemas, decorators, hooks, routes, error>>
requestVars == <<req, reply, handed, cur, kept, calls, last>>
vars == <<pc, service, jsonSchema, swaggerSecurityMap, idx, schemas, decorators, hooks, routes, error,
          req, reply, handed, cur, kept, calls, last>>

-----------------------------------------------------------------------------
(* Bounds of the model *)

MaxEntries == 2          \* entries of a service declaration
MaxExternalRoutes == 1   \* routes registered on the server besides the service's
MaxCalls == 4            \* reply calls a handler makes for one request

-----------------------------------------------------------------------------
(* Values *)

None(v) == [def |-> FALSE, val |-> v]
Some(v) == [def |-> TRUE, val |-> v]

EmptyObj == <<>>                       \* {}
EmptyStr == <<>>                       \* ""
Undefined == <<"u","n","d","e","f","i","n","e","d">>   \* `${undefined}`

SpreadKeepFirst(a, b) == [k \in (DOMAIN a) \cup (DOMAIN b) |-> IF k \in DOMAIN a THEN a[k] ELSE b[k]]

\* { ...a, ...b }: own properties of b override those of a
Spread(a, b) == [k \in (DOMAIN a) \cup (DOMAIN b) |-> IF k \in DOMAIN b THEN b[k] ELSE a[k]]

\* { ...a, ...(o) } where o is undefined / false (spreads nothing) or an object
SpreadOpt(a, o) == IF o.def THEN Spread(a, o.val) ELSE a

\* obj[key] on a plain object: undefined when the property is absent
Lookup(obj, k) == IF k \in DOMAIN obj THEN Some(obj[k]) ELSE None(EmptyObj)

Lower == <<"a","b","c","d","e","f","g","h","i","j","k","l","m",
           "n","o","p","q","r","s","t","u","v","w","x","y","z">>
Upper == <<"A","B","C","D","E","F","G","H","I","J","K","L","M",
           "N","O","P","Q","R","S","T","U","V","W","X","Y","Z">>

ToUpperChar(c) ==
  IF \E i \in 1..Len(Lower) : Lower[i] = c
  THEN Upper[CHOOSE i \in 1..Len(Lower) : Lower[i] = c]
  ELSE c

\* String.prototype.toUpperCase
ToUpperCase(s) == [i \in 1..Len(s) |-> ToUpperChar(s[i])]

\* String.prototype.split(' '): the pieces between the spaces, empty pieces kept
RECURSIVE SplitFrom(_, _, _)
SplitFrom(s, i, piece) ==
  IF i > Len(s) THEN <<piece>>
  ELSE IF s[i] = " " THEN <<piece>> \o SplitFrom(s, i + 1, EmptyStr)
  ELSE SplitFrom(s, i + 1, Append(piece, s[i]))

Split(s) == SplitFrom(s, 1, EmptyStr)

RECURSIVE JoinEmpty(_)
JoinEmpty(parts) ==
  IF Len(parts) = 0 THEN EmptyStr ELSE parts[1] \o JoinEmpty(Tail(parts))

\* Array.prototype.join(' ')
RECURSIVE Join(_)
Join(parts) ==
  IF Len(parts) = 0 THEN EmptyStr
  ELSE IF Len(parts) = 1 THEN parts[1]
  ELSE parts[1] \o <<" ">> \o Join(Tail(parts))

\* `${a} ${b}`
Template(a, b) == a \o <<" ">> \o b

-----------------------------------------------------------------------------
(* addSchema: constants of the code *)

GET == <<"G","E","T">>
POST == <<"P","O","S","T">>
PUT == <<"P","U","T">>
DELETE == <<"D","E","L","E","T","E">>
HEAD == <<"H","E","A","D">>
PATCH == <<"P","A","T","C","H">>
OPTIONS == <<"O","P","T","I","O","N","S">>

httpMethods == {DELETE, GET, HEAD, PATCH, POST, PUT, OPTIONS}

\* fastify.prefix of the instance addSchema is applied to
fastifyPrefix == <<"/","v","1">>

-----------------------------------------------------------------------------
(* Inputs: schema tables, security maps, explicit schemas, declarations *)

Slash == <<"/">>
PathA == <<"/","a">>
PathAB == <<"/","a"," ","b">>
PathX == <<"/","x">>

JString == [type |-> "string"]
JObject == [type |-> "object"]
JNumber == [type |-> "number"]
RespOk == ("200" :> JString)
RespTwo == ("200" :> JObject) @@ ("404" :> JString)
RespExplicit == ("200" :> JNumber)
SecBearer == [bearer |-> "token"]
SecBasic == [basic |-> "pwd"]
SecFragment == [apiKey |-> "frag"]

\* a schema fragment: [props, response], props = fragment.request?.properties
FragRoot == [props |-> Some([querystring |-> JObject, headers |-> JObject]), response |-> Some(RespOk)]
FragBody == [props |-> Some([body |-> JObject, security |-> SecFragment]), response |-> None(EmptyObj)]
FragResp == [props |-> None(EmptyObj), response |-> Some(RespTwo)]
FragBare == [props |-> Some([params |-> JNumber]), response |-> Some(RespTwo)]

TableEmpty == <<>>
TableMain == (Template(GET, Slash) :> FragRoot) @@ (Template(POST, PathAB) :> FragBody)
               @@ (Template(GET, PathA) :> FragResp)
TableBare == (Template(GET, EmptyStr) :> FragBare) @@ (Template(GET, Slash) :> FragRoot)
               @@ (Template(GET, PathA) :> FragBody)

SecurityRoot == (Template(GET, Slash) :> SecBearer) @@ (Template(GET, PathA) :> SecBasic)
SecurityBare == (Template(GET, EmptyStr) :> SecBasic) @@ (Template(POST, PathAB) :> SecBearer)
                  @@ (Template(GET, PathA) :> SecBearer)

\* (jsonSchema.fastify, swaggerSecurityMap) pairs the model starts from
TableConfigs ==
  { <<TableEmpty, None(EmptyObj)>>,
    <<TableMain, Some(SecurityRoot)>>,
    <<TableMain, None(EmptyObj)>>,
    <<TableEmpty, Some(SecurityRoot)>>,
    <<TableBare, Some(SecurityBare)>> }

\* jsonSchema.schema: absent, without $id, with an empty $id, with an $id
SchemaDocs ==
  { None(EmptyStr), Some([id |-> None(EmptyStr)]), Some([id |-> Some(EmptyStr)]),
    Some([id |-> Some(<<"a","p","i">>)]) }

\* explicit route schemas
SchemaTags == [tags |-> [t |-> "docs"]]
SchemaFull == [response |-> RespExplicit, security |-> SecBasic, body |-> JString]

\* declaration values: [type, fields]; type is what the value is, fields its own properties
Fn(name) == [type |-> "function", fields |-> [name |-> name]]
Obj(fields) == [type |-> "object", fields |-> fields]
Null == [type |-> "null", fields |-> EmptyObj]
Str == [type |-> "string", fields |-> EmptyObj]

Entry(k, h, own) == [key |-> k, handler |-> h, own |-> own]

\* the declaration every modelled service is a sub-declaration of, in key order
ServiceMaster ==
  << Entry(Template(GET, Slash), Fn("root"), TRUE),
     Entry(Template(<<"g","e","t">>, PathA),
           Obj([handler |-> "getA", schema |-> SchemaFull, method |-> POST, url |-> PathX]), TRUE),
     Entry(Template(<<"F","O","O">>, <<"/","b","a","d">>), Fn("bad"), TRUE),
     Entry(Template(<<"P","o","s","t">>, PathAB), Fn("postAB"), TRUE),
     Entry(<<"P","U","T"," "," ","/","x">>, Obj([handler |-> "putX", schema |-> SchemaTags]), TRUE),
     Entry(Template(EmptyStr, PathX), Fn("noMethod"), TRUE),
     Entry(Template(DELETE, PathA), Str, TRUE),
     Entry(GET, Fn("noPath"), TRUE),
     Entry(Template(<<"o","p","t","i","o","n","s">>, Slash), Obj([handler |-> "opt"]), TRUE),
     Entry(Template(<<"t","r","a","c","e">>, PathX), Fn("trace"), TRUE),
     Entry(Template(HEAD, Slash), Null, TRUE),
     Entry(Template(PATCH, PathA), Fn("patchA"), TRUE),
     Entry(Template(PUT, PathA), Obj([schema |-> SchemaTags]), TRUE),
     Entry(Template(GET, PathX), Fn("inherited"), FALSE) >>

\* strictly increasing index sequences of length at most n into 1..m
RECURSIVE Picks(_, _, _)
Picks(from, m, n) ==
  IF n = 0 \/ from > m THEN {<<>>}
  ELSE {<<>>} \cup UNION { { <<i>> \o p : p \in Picks(i + 1, m, n - 1) } : i \in from..m }

Services ==
  { [j \in 1..Len(p) |-> ServiceMaster[p[j]]] : p \in Picks(1, Len(ServiceMaster), MaxEntries) }

\* a plugin registered under the instance has its own, longer prefix
childPrefix == fastifyPrefix \o <<"/","s">>

\* routes registered directly with fastify.route (not through the service), as
\* <<route options, prefix of the instance they are registered on>>
ExternalRoutes ==
  { <<SpreadOpt([method |-> GET, url |-> u, handler |-> "ext"], s), p>> :
      u \in {EmptyStr, Slash, PathA},
      p \in {fastifyPrefix, childPrefix},
      s \in {None(EmptyObj), Some([schema |-> SchemaTags]), Some([schema |-> SchemaFull])} }

-----------------------------------------------------------------------------
(* addSchema *)

NoError == [kind |-> "none", path |-> EmptyStr, method |-> EmptyStr]
Thrown(kind, path, method) == [kind |-> kind, path |-> path, method |-> method]

\* line 32: the message of the missing-$id error
SchemaIgnoredMessage ==
  <<"S","c","h","e","m","a"," ","w","a","s"," ","i","g","n","o","r","e","d",","," ","$","i","d",
    " ","i","s"," ","m","i","s","s","i","n","g",";"," ","T","y","p","e","d"," ","f","a","s","t",
    "i","f","y"," ","s","c","h","e","m","a"," ","w","a","s"," ","n","o","t"," ","r","e","g","i",
    "s","t","e","r","e","d",".",".",".">>

\* line 82: the literal parts of `Wrong configuration for ${path}, method [${method}] is unknown HTTP method`
WrongConfigurationFor ==
  <<"W","r","o","n","g"," ","c","o","n","f","i","g","u","r","a","t","i","o","n"," ","f","o","r",
    " ">>

WrongConfigurationMethod ==
  <<","," ","m","e","t","h","o","d"," ","[">>

WrongConfigurationUnknown ==
  <<"]"," ","i","s"," ","u","n","k","n","o","w","n"," ","H","T","T","P"," ","m","e","t","h","o",
    "d">>

\* line 105
UnknownHandlerMessage ==
  <<"U","n","k","n","o","w","n"," ","h","a","n","d","l","e","r">>

\* line 91: handler.handler on null; the message is the engine's
NullHandlerMessage ==
  <<"C","a","n","n","o","t"," ","r","e","a","d"," ","p","r","o","p","e","r","t","i","e","s"," ",
    "o","f"," ","n","u","l","l"," ","(","r","e","a","d","i","n","g"," ","'","h","a","n","d","l",
    "e","r","'",")">>

MessageUpperCased(e) ==
  CASE e.kind = "SchemaIgnored" -> SchemaIgnoredMessage
    [] e.kind = "WrongConfiguration" ->
         WrongConfigurationFor \o e.path \o WrongConfigurationMethod \o ToUpperCase(e.method)
           \o WrongConfigurationUnknown
    [] e.kind = "UnknownHandler" -> UnknownHandlerMessage
    [] e.kind = "TypeError" -> NullHandlerMessage
    [] OTHER -> EmptyStr

\* lines 32, 82, 105: the message of the Error thrown
Message(e) ==
  CASE e.kind = "SchemaIgnored" -> SchemaIgnoredMessage
    [] e.kind = "WrongConfiguration" ->
         WrongConfigurationFor \o e.path \o WrongConfigurationMethod \o e.method
           \o WrongConfigurationUnknown
    [] e.kind = "UnknownHandler" -> UnknownHandlerMessage
    [] e.kind = "TypeError" -> NullHandlerMessage
    [] OTHER -> EmptyStr

Range(f) == { f[i] : i \in DOMAIN f }

\* lines 50-58: the fragment of the schema table for a route, with the root-path fallbacks
FindSchema(method, routePath) ==
  LET fastifySchema == jsonSchema.fastify
      direct == Lookup(fastifySchema, Template(method, routePath))
      viaEmpty == IF ~direct.def /\ routePath = EmptyStr
                  THEN Lookup(fastifySchema, Template(method, Slash))
                  ELSE direct
  IN IF ~viaEmpty.def /\ routePath = Slash
     THEN Lookup(fastifySchema, Template(method, Slash))
     ELSE viaEmpty

SecurityForRootFallback(key) ==
  IF swaggerSecurityMap.def /\ key \in DOMAIN swaggerSecurityMap.val
  THEN Some([security |-> swaggerSecurityMap.val[key]])
  ELSE IF swaggerSecurityMap.def /\ (key \o Slash) \in DOMAIN swaggerSecurityMap.val
  THEN Some([security |-> swaggerSecurityMap.val[key \o Slash]])
  ELSE None(EmptyObj)

\* lines 64-67: opts?.swaggerSecurityMap && opts.swaggerSecurityMap[key] && { security: ... }
SecurityFor(key) ==
  IF swaggerSecurityMap.def /\ key \in DOMAIN swaggerSecurityMap.val
  THEN Some([security |-> swaggerSecurityMap.val[key]])
  ELSE None(EmptyObj)

MergeSchemaExplicitLast(schema, key, fragment) ==
  LET response == IF fragment.response.def
                  THEN Some([response |-> fragment.response.val])
                  ELSE None(EmptyObj)
  IN Spread(SpreadOpt(SpreadOpt(SpreadOpt(EmptyObj, SecurityFor(key)), fragment.props), response), schema)

MergeSchemaSecurityLast(schema, key, fragment) ==
  LET response == IF fragment.response.def
                  THEN Some([response |-> fragment.response.val])
                  ELSE None(EmptyObj)
  IN SpreadOpt(SpreadOpt(SpreadOpt(schema, fragment.props), SecurityFor(key)), response)

MergeSchemaResponseAlways(schema, key, fragment) ==
  Spread(SpreadOpt(SpreadOpt(schema, SecurityFor(key)), fragment.props),
         [response |-> fragment.response.val])

MergeSchemaAccumulating(schema, key, fragment) ==
  LET response == IF fragment.response.def
                  THEN Some([response |-> fragment.response.val])
                  ELSE None(EmptyObj)
      security == IF SecurityFor(key).def /\ "security" \in DOMAIN schema
                  THEN Some([security |-> <<schema.security, SecurityFor(key).val.security>>])
                  ELSE SecurityFor(key)
  IN SpreadOpt(SpreadOpt(SpreadOpt(schema, security), fragment.props), response)

\* lines 62-72: the merge, later spreads overriding earlier ones
MergeSchema(schema, key, fragment) ==
  LET response == IF fragment.response.def
                  THEN Some([response |-> fragment.response.val])
                  ELSE None(EmptyObj)
  IN SpreadOpt(SpreadOpt(SpreadOpt(schema, SecurityFor(key)), fragment.props), response)

onRouteSecurityAlways(config) ==
  IF config.prefix # fastifyPrefix THEN config.schema
  ELSE
    LET key == Template(config.method, config.routePath)
        maybeSchema == FindSchema(config.method, config.routePath)
        schema == IF config.schema.def THEN config.schema.val ELSE EmptyObj
    IN IF maybeSchema.def
       THEN Some(MergeSchema(schema, key, maybeSchema.val))
       ELSE Some(SpreadOpt(schema, SecurityFor(key)))

onRouteAnyPrefix(config) ==
  LET key == Template(config.method, config.routePath)
      maybeSchema == FindSchema(config.method, config.routePath)
      schema == IF config.schema.def THEN config.schema.val ELSE EmptyObj
  IN IF maybeSchema.def
     THEN Some(MergeSchema(schema, key, maybeSchema.val))
     ELSE Some(schema)

\* lines 47-74: the onRoute hook; the value is config.schema once the hook returned
onRoute(config) ==
  IF config.prefix # fastifyPrefix THEN config.schema
  ELSE
    LET key == Template(config.method, config.routePath)
        maybeSchema == FindSchema(config.method, config.routePath)
        schema == IF config.schema.def THEN config.schema.val ELSE EmptyObj   \* config.schema || {}
    IN IF maybeSchema.def
       THEN Some(MergeSchema(schema, key, maybeSchema.val))
       ELSE Some(schema)

\* fastify.route(opts) on an instance with the given prefix: the server runs the
\* installed onRoute hooks on the route's config and keeps the route
RouteAdded(opts, prefix, from) ==
  LET declared == Lookup(opts, "schema")
      config == [prefix |-> prefix, method |-> opts.method, routePath |-> opts.url,
                 schema |-> declared]
  IN [ opts |-> opts, from |-> from, prefix |-> prefix, method |-> opts.method,
       routePath |-> opts.url, declared |-> declared,
       schema |-> IF "onRoute" \in Range(hooks) THEN onRoute(config) ELSE declared ]

ValidMethodCaseSensitive(method) == method # EmptyStr /\ method \in httpMethods

ValidMethodNonEmpty(method) == method # EmptyStr

\* line 81: !method || !httpMethods.has(httpMethod) is false
ValidMethod(method) == method # EmptyStr /\ ToUpperCase(method) \in httpMethods

\* typeof handler
TypeOf(handler) == IF handler.type \in {"object", "null"} THEN "object" ELSE handler.type

CheckIdDefined ==
  /\ pc = "start"
  /\ LET schema == jsonSchema.schema
     IN IF schema.def /\ schema.val.id.def
        THEN /\ schemas' = Append(schemas, schema.val)
             /\ pc' = "setup"
             /\ error' = error
        ELSE /\ error' = Thrown("SchemaIgnored", EmptyStr, EmptyStr)
             /\ pc' = "failed"
             /\ schemas' = schemas
  /\ UNCHANGED <<service, jsonSchema, swaggerSecurityMap, idx, decorators, hooks, routes>>
  /\ UNCHANGED requestVars

\* lines 28-33: the schema document must carry a truthy $id
CheckId ==
  /\ pc = "start"
  /\ LET schema == jsonSchema.schema
     IN IF schema.def /\ schema.val.id.def /\ schema.val.id.val # EmptyStr
        THEN /\ schemas' = Append(schemas, schema.val)
             /\ pc' = "setup"
             /\ error' = error
        ELSE /\ error' = Thrown("SchemaIgnored", EmptyStr, EmptyStr)
             /\ pc' = "failed"
             /\ schemas' = schemas
  /\ UNCHANGED <<service, jsonSchema, swaggerSecurityMap, idx, decorators, hooks, routes>>
  /\ UNCHANGED requestVars

InstallHooksWithoutOnRoute ==
  /\ pc = "setup"
  /\ decorators' = decorators \cup {"reply.matches", "request.operationPath", "reply.asReply"}
  /\ hooks' = hooks \o <<"onRequest">>
  /\ pc' = "loop"
  /\ UNCHANGED <<service, jsonSchema, swaggerSecurityMap, idx, schemas, routes, error>>
  /\ UNCHANGED requestVars

\* lines 35-75: decorators and hooks
InstallHooks ==
  /\ pc = "setup"
  /\ decorators' = decorators \cup {"reply.matches", "request.operationPath", "reply.asReply"}
  /\ hooks' = hooks \o <<"onRequest", "onRoute">>
  /\ pc' = "loop"
  /\ UNCHANGED <<service, jsonSchema, swaggerSecurityMap, idx, schemas, routes, error>>
  /\ UNCHANGED requestVars

\* lines 77-107: one iteration of the for-in loop, or its end
LoopStep ==
  /\ pc = "loop"
  /\ IF idx > Len(service)
     THEN /\ pc' = "done"
          /\ UNCHANGED <<idx, routes, error>>
     ELSE LET path == service[idx].key
              handler == service[idx].handler
              parts == Split(path)
              method == parts[1]
              route == Tail(parts)
              httpMethod == ToUpperCase(method)
          IN IF ~service[idx].own
             THEN /\ idx' = idx + 1
                  /\ UNCHANGED <<pc, routes, error>>
             ELSE IF ~ValidMethod(method)
             THEN /\ error' = Thrown("WrongConfiguration", path, method)
                  /\ pc' = "failed"
                  /\ UNCHANGED <<idx, routes>>
             ELSE IF TypeOf(handler) = "object" /\ handler.type = "null"
             THEN /\ error' = Thrown("TypeError", EmptyStr, EmptyStr)   \* null.handler
                  /\ pc' = "failed"
                  /\ UNCHANGED <<idx, routes>>
             ELSE IF TypeOf(handler) = "object"
             THEN /\ routes' = Append(routes, RouteAdded(
                         Spread(handler.fields,
                                [handler |-> IF "handler" \in DOMAIN handler.fields
                                             THEN handler.fields.handler ELSE "undefined",
                                 method |-> httpMethod,
                                 url |-> Join(route)]),
                         fastifyPrefix, idx))
                  /\ idx' = idx + 1
                  /\ UNCHANGED <<pc, error>>
             ELSE IF TypeOf(handler) = "function"
             THEN /\ routes' = Append(routes, RouteAdded(
                         [method |-> httpMethod, handler |-> handler.fields.name,
                          url |-> Join(route)],
                         fastifyPrefix, idx))
                  /\ idx' = idx + 1
                  /\ UNCHANGED <<pc, error>>
             ELSE /\ error' = Thrown("UnknownHandler", EmptyStr, EmptyStr)
                  /\ pc' = "failed"
                  /\ UNCHANGED <<idx, routes>>
  /\ UNCHANGED <<service, jsonSchema, swaggerSecurityMap, schemas, decorators, hooks>>
  /\ UNCHANGED requestVars

RegisterRouteInPlace ==
  /\ pc = "done"
  /\ Cardinality({ i \in 1..Len(routes) : routes[i].from = 0 }) < MaxExternalRoutes
  /\ \E r \in ExternalRoutes :
       /\ routes' = Append(routes, RouteAdded(r[1], r[2], 0))
       /\ jsonSchema' =
            [jsonSchema EXCEPT !.fastify =
               [k \in DOMAIN jsonSchema.fastify |->
                  IF k = Template(r[1].method, r[1].url) /\ r[2] = fastifyPrefix
                  THEN [jsonSchema.fastify[k] EXCEPT
                          !.props = Some(RouteAdded(r[1], r[2], 0).schema.val)]
                  ELSE jsonSchema.fastify[k]]]
  /\ UNCHANGED <<pc, service, swaggerSecurityMap, idx, schemas, decorators, hooks, error>>
  /\ UNCHANGED requestVars

\* a route registered on the server, or on a plugin under it, after addSchema returned
RegisterRoute ==
  /\ pc = "done"
  /\ Cardinality({ i \in 1..Len(routes) : routes[i].from = 0 }) < MaxExternalRoutes
  /\ \E r \in ExternalRoutes :
       routes' = Append(routes, RouteAdded(r[1], r[2], 0))
  /\ UNCHANGED <<pc, service, jsonSchema, swaggerSecurityMap, idx, schemas, decorators, hooks, error>>
  /\ UNCHANGED requestVars

-----------------------------------------------------------------------------
(* The request side: types of the Reply contract *)

\* A header type is a union (set) of object types [req, opt]: the names of the
\* required and of the optional properties; never is the empty union. A status
\* type is a union (set) of status literals; never is the empty union.
Never == {}
ObjectType(required, optional) == [req |-> required, opt |-> optional]

\* Op['response'] of a route: status -> [headers (optional key), content (present or not)]
OpMain ==
  (200 :> [headers |-> Some(ObjectType({"x-total"}, {"x-opt"})), content |-> TRUE])
    @@ (201 :> [headers |-> None(ObjectType({}, {})), content |-> TRUE])
    @@ (204 :> [headers |-> None(ObjectType({}, {})), content |-> FALSE])
OpOptional ==
  (200 :> [headers |-> Some(ObjectType({}, {"x-opt"})), content |-> TRUE])

\* ServiceSchema['paths'] of the served application
Paths == (Template(GET, Slash) :> OpMain) @@ (Template(POST, PathAB) :> OpOptional)

\* Get2<Op['response'], Status, 'headers'>
AllHeaders(op, status) ==
  { op[st].headers.val : st \in { x \in status \cap DOMAIN op : op[x].headers.def } }

\* [Get2<Op['response'], Status, 'content'>] extends [never] is false
HasContent(op, status) == \E st \in status \cap DOMAIN op : op[st].content

\* [Candidate] extends [MaybeRequired]: every member of the union is assignable
\* to a member of the target, an object type being assignable to another when
\* it has the other's required properties
Extends(Candidate, MaybeRequired) ==
  \A c \in Candidate : \E m \in MaybeRequired : m.req \subseteq c.req

\* lines 112-118: type Missing<Candidate, MaybeRequired>
Missing(Candidate, MaybeRequired) ==
  IF Candidate = Never /\ MaybeRequired = Never THEN FALSE
  ELSE IF Candidate = Never THEN TRUE
  ELSE IF Extends(Candidate, MaybeRequired) THEN FALSE
  ELSE TRUE

\* keyof of a union of object types: the properties every member has
KeyOf(T, names) == { n \in names : \A m \in T : n \in m.req \cup m.opt }

\* static types of the values a handler holds
ReplyType(status, headers) == [kind |-> "Reply", status |-> status, headers |-> headers]
AsReplyType == [kind |-> "AsReply", status |-> Never, headers |-> Never]
OtherType == [kind |-> "other", status |-> Never, headers |-> Never]

\* lines 369-372: the reply parameter of a handler is Reply<Op, never, never, never, ...>
ReplyParameter == ReplyType(Never, Never)

-----------------------------------------------------------------------------
(* The request side: state *)

NoRequest == [method |-> EmptyStr, routerPath |-> None(EmptyStr), operationPath |-> None(EmptyStr),
              phase |-> "none", op |-> <<>>]
Idle == [status |-> 0, headers |-> EmptyObj, sent |-> FALSE]
NoCall == [op |-> "none", target |-> "reply", arg |-> <<>>, accepted |-> FALSE, before |-> Idle]

\* `${x}` of a value that may be undefined
Text(x) == IF x.def THEN x.val ELSE Undefined

HeaderNames == {"x-total", "x-opt", "x-other"}
HeaderValues == {"1", "2"}
Statuses == {200, 201, 204, 500}
Payloads == {None("none"), Some("ok")}
Labels == {Template(GET, Slash), Template(POST, PathAB), Template(GET, Undefined)}
Location == <<"/","r">>
HeaderMaps ==
  { EmptyObj, ("x-total" :> "1"), ("x-opt" :> "2"), ("x-total" :> "2") @@ ("x-opt" :> "1") }

\* the static type of the value a call is made on: the reply parameter, the
\* value the previous call returned (a chained call), or a value kept earlier
Targets == {"reply", "chain", "kept"}
TypeOfTarget(target) ==
  IF target = "reply" THEN ReplyParameter ELSE IF target = "chain" THEN cur ELSE kept

\* a handler typed by the service runs only for a route of the service
InHandler == pc = "done" /\ req.phase = "handler" /\ req.routerPath.def /\ calls < MaxCalls

\* a call the type checker rejects: the handler does not compile, nothing runs
Rejected(name, target, arg) ==
  /\ last' = [op |-> name, target |-> target, arg |-> arg, accepted |-> FALSE, before |-> reply]
  /\ req' = [req EXCEPT !.phase = "rejected"]
  /\ calls' = calls + 1
  /\ UNCHANGED <<reply, handed, cur, kept>>

Accepted(name, target, arg, type) ==
  /\ last' = [op |-> name, target |-> target, arg |-> arg, accepted |-> TRUE, before |-> reply]
  /\ cur' = type
  /\ calls' = calls + 1
  /\ UNCHANGED <<req, kept>>

\* the server dispatches a request: to a registered route, or to none (404)
Receive ==
  /\ pc = "done"
  /\ \/ \E i \in 1..Len(routes) :
          /\ Template(routes[i].method, routes[i].routePath) \in DOMAIN Paths
          /\ req' = [method |-> routes[i].method, routerPath |-> Some(routes[i].routePath),
                     operationPath |-> None(EmptyStr), phase |-> "received",
                     op |-> Paths[Template(routes[i].method, routes[i].routePath)]]
     \/ req' = [method |-> GET, routerPath |-> None(EmptyStr),
                operationPath |-> None(EmptyStr), phase |-> "received", op |-> <<>>]
  /\ reply' = Idle
  /\ handed' = <<>>
  /\ cur' = ReplyParameter
  /\ kept' = ReplyParameter
  /\ calls' = 0
  /\ last' = NoCall
  /\ UNCHANGED startupVars

OnRequestWithoutPath ==
  /\ pc = "done"
  /\ req.phase = "received"
  /\ "onRequest" \in Range(hooks)
  /\ req' = [req EXCEPT !.operationPath = Some(req.method), !.phase = "handler"]
  /\ UNCHANGED <<reply, handed, cur, kept, calls, last>>
  /\ UNCHANGED startupVars

\* lines 39-42: the onRequest hook
OnRequest ==
  /\ pc = "done"
  /\ req.phase = "received"
  /\ "onRequest" \in Range(hooks)
  /\ req' = [req EXCEPT !.operationPath = Some(Template(req.method, Text(req.routerPath))),
                        !.phase = "handler"]
  /\ UNCHANGED <<reply, handed, cur, kept, calls, last>>
  /\ UNCHANGED startupVars

\* const kept = <the value of the last call>
Keep ==
  /\ pc = "done"
  /\ req.phase = "handler"
  /\ cur.kind = "Reply"
  /\ kept # cur
  /\ kept' = cur
  /\ UNCHANGED <<req, reply, handed, cur, calls, last>>
  /\ UNCHANGED startupVars

\* lines 228-237: status(status) and code(status)
Status ==
  /\ InHandler
  /\ \E target \in Targets, name \in {"status", "code"}, st \in Statuses :
       LET t == TypeOfTarget(target)
       IN IF t.kind = "Reply" /\ st \in DOMAIN req.op
          THEN /\ Accepted(name, target, st, ReplyType({st}, t.headers))
               /\ reply' = [reply EXCEPT !.status = st]
               /\ UNCHANGED handed
          ELSE Rejected(name, target, st)
  /\ UNCHANGED startupVars

\* lines 206-220: header(header, value)
Header ==
  /\ InHandler
  /\ \E target \in Targets, h \in HeaderNames, v \in HeaderValues :
       LET t == TypeOfTarget(target)
           all == AllHeaders(req.op, t.status)
       IN IF t.kind = "Reply" /\ all # Never /\ h \in KeyOf(all, HeaderNames)
          THEN /\ Accepted("header", target, <<h, v>>,
                    ReplyType(t.status,
                      IF t.headers = Never
                      THEN {ObjectType({h}, {})}
                      ELSE { ObjectType(c.req \cup {h}, c.opt \ {h}) : c \in t.headers }))
               /\ reply' = [reply EXCEPT !.headers = Spread(reply.headers, h :> v)]
               /\ UNCHANGED handed
          ELSE Rejected("header", target, <<h, v>>)
  /\ UNCHANGED startupVars

\* lines 202-204: headers(values)
Headers ==
  /\ InHandler
  /\ \E target \in Targets, values \in HeaderMaps :
       LET t == TypeOfTarget(target)
           all == AllHeaders(req.op, t.status)
           given == {ObjectType(DOMAIN values, {})}
       IN IF t.kind = "Reply" /\ all # Never /\ Extends(given, all)
          THEN /\ Accepted("headers", target, values, ReplyType(t.status, given))
               /\ reply' = [reply EXCEPT !.headers = Spread(reply.headers, values)]
               /\ UNCHANGED handed
          ELSE Rejected("headers", target, values)
  /\ UNCHANGED startupVars

SendAllowedWithoutStatus(t, op, payload) ==
  /\ t.kind = "Reply"
  /\ ~Missing(t.headers, AllHeaders(op, t.status))
  /\ payload.def <=> HasContent(op, t.status)

\* lines 179-197: whether send(...payload) type-checks on a value of type t
SendAllowed(t, op, payload) ==
  /\ t.kind = "Reply"
  /\ t.status # Never                                          \* MissingStatus
  /\ ~Missing(t.headers, AllHeaders(op, t.status))             \* MissingHeaders
  /\ payload.def <=> HasContent(op, t.status)

\* lines 179-197: send(...payload); the reply is handed to the server's send primitive
Send ==
  /\ InHandler
  /\ \E target \in Targets, payload \in Payloads :
       IF SendAllowed(TypeOfTarget(target), req.op, payload)
       THEN /\ Accepted("send", target, payload, AsReplyType)
            /\ handed' = Append(handed, [status |-> reply.status, headers |-> reply.headers,
                                         payload |-> payload])
            /\ reply' = [reply EXCEPT !.sent = TRUE]
       ELSE Rejected("send", target, payload)
  /\ UNCHANGED startupVars

\* lines 225-226: redirect(statusCode, url) and redirect(url)
Redirect ==
  /\ InHandler
  /\ \E target \in Targets, code \in {None(302)} \cup { Some(st) : st \in Statuses } :
       LET t == TypeOfTarget(target)
           headers == Spread(reply.headers, "location" :> Location)
       IN IF t.kind = "Reply" /\ (code.def => code.val \in DOMAIN req.op)
          THEN /\ Accepted("redirect", target, code, AsReplyType)
               /\ handed' = Append(handed, [status |-> code.val, headers |-> headers,
                                            payload |-> None("none")])
               /\ reply' = [status |-> code.val, headers |-> headers, sent |-> TRUE]
          ELSE Rejected("redirect", target, code)
  /\ UNCHANGED startupVars

asReplyFresh(this) == Idle

\* lines 43-45 and 262-266: the asReply decorator (return this) and the
\* exported asReply (return any)
asReply(this) == this

\* reply.asReply() on a Reply value (line 164), or asReply(value) on a value
\* of the reply: the value of the call is the terminal AsReply
AsReply ==
  /\ InHandler
  /\ "reply.asReply" \in decorators
  /\ \E target \in Targets, name \in {"reply.asReply", "asReply"} :
       LET t == TypeOfTarget(target)
       IN IF (name = "reply.asReply" /\ t.kind = "Reply") \/ (name = "asReply" /\ t.kind # "other")
          THEN /\ last' = [op |-> "asReply", target |-> target, arg |-> name, accepted |-> TRUE,
                           before |-> reply, result |-> asReply(reply)]
               /\ cur' = AsReplyType
               /\ calls' = calls + 1
               /\ UNCHANGED <<req, reply, handed, kept>>
          ELSE Rejected("asReply", target, name)
  /\ UNCHANGED startupVars

matchesRouterPath(request, routeWithMethod) ==
  Text(request.routerPath) = routeWithMethod

\* lines 35-37: the matches decorator
matches(request, routeWithMethod) ==
  Template(request.method, Text(request.routerPath)) = routeWithMethod

\* lines 165-177 and 35-37: reply.matches(path)
\* (on the untyped reply of a request without a route, any label is passed)
Matches ==
  /\ pc = "done" /\ req.phase = "handler" /\ calls < MaxCalls
  /\ "reply.matches" \in decorators
  /\ \E target \in Targets, label \in Labels :
       IF TypeOfTarget(target).kind = "Reply" /\ (req.routerPath.def => label \in DOMAIN Paths)
       THEN /\ last' = [op |-> "matches", target |-> target, arg |-> label, accepted |-> TRUE,
                        before |-> reply, result |-> matches(req, label)]
            /\ cur' = OtherType
            /\ calls' = calls + 1
            /\ UNCHANGED <<req, reply, handed, kept>>
       ELSE Rejected("matches", target, label)
  /\ UNCHANGED startupVars

-----------------------------------------------------------------------------

Init ==
  /\ pc = "start"
  /\ service \in Services
  /\ \E doc \in SchemaDocs, t \in TableConfigs :
       /\ jsonSchema = [schema |-> doc, fastify |-> t[1]]
       /\ swaggerSecurityMap = t[2]
  /\ idx = 1
  /\ schemas = <<>>
  /\ decorators = {}
  /\ hooks = <<>>
  /\ routes = <<>>
  /\ error = NoError
  /\ req = NoRequest
  /\ reply = Idle
  /\ handed = <<>>
  /\ cur = ReplyParameter
  /\ kept = ReplyParameter
  /\ calls = 0
  /\ last = NoCall

Next == CheckId \/ InstallHooks \/ LoopStep \/ RegisterRoute

Spec == Init /\ [][Next]_vars

\* The served application: one service and schema table, started and then serving requests
ServedService == <<ServiceMaster[1], ServiceMaster[4]>>

ServeInit ==
  /\ Init
  /\ service = ServedService
  /\ jsonSchema = [schema |-> Some([id |-> Some(<<"a","p","i">>)]), fastify |-> TableMain]
  /\ swaggerSecurityMap = Some(SecurityRoot)

ServeNext ==
  \/ CheckId \/ InstallHooks \/ LoopStep
  \/ Receive \/ OnRequest \/ Keep
  \/ Status \/ Header \/ Headers \/ Send \/ Redirect \/ Matches \/ AsReply

ServeSpec == ServeInit /\ [][ServeNext]_vars

-----------------------------------------------------------------------------
(* Claims about startup *)

\* the routes the onRoute hook looked a fragment up for
Resolved(r) == r.prefix = fastifyPrefix

\* C1: a root route registered with routePath "" and the same route registered
\* with routePath "/" (same method, same prior schema) have identical resolved
\* schemas after the onRoute resolution.
C1_RootSpellingsResolveAlike ==
  \A i, j \in 1..Len(routes) :
    ( /\ routes[i].routePath = EmptyStr
      /\ routes[j].routePath = Slash
      /\ routes[i].method = routes[j].method
      /\ routes[i].prefix = routes[j].prefix
      /\ routes[i].declared = routes[j].declared )
    => routes[i].schema = routes[j].schema

\* C2: when addSchema fails on an entry whose method token is not a recognized
\* verb, no route has been handed to the server, wherever the entry stands.
C2_NoRouteWhenMethodRejected ==
  (pc = "failed" /\ error.kind = "WrongConfiguration") => Len(routes) = 0

\* the schema table has no fragment for the route, also after the root-path fallbacks
NoFragmentFor(r) ==
  /\ Template(r.method, r.routePath) \notin DOMAIN jsonSchema.fastify
  /\ r.routePath \in {EmptyStr, Slash} => Template(r.method, Slash) \notin DOMAIN jsonSchema.fastify

\* C7: a route registered with an explicit schema and without a matching
\* fragment has, after the onRoute resolution, the schema it was declared
\* with: the same keys with the same values.
C7_ExplicitSchemaKept ==
  \A i \in 1..Len(routes) :
    (routes[i].declared.def /\ NoFragmentFor(routes[i]))
    => /\ routes[i].schema.def
       /\ DOMAIN routes[i].schema.val = DOMAIN routes[i].declared.val
       /\ \A k \in DOMAIN routes[i].declared.val :
            routes[i].schema.val[k] = routes[i].declared.val[k]

C7_Witness ==
  \E i \in 1..Len(routes) :
    /\ routes[i].declared.def
    /\ NoFragmentFor(routes[i])
    /\ Resolved(routes[i])
    /\ swaggerSecurityMap.def
    /\ Template(routes[i].method, routes[i].routePath) \in DOMAIN swaggerSecurityMap.val

\* the fragment the schema table holds for a resolved route: under its own key,
\* else, for the two root spellings, under "<method> /"
FragmentOf(r) ==
  IF Template(r.method, r.routePath) \in DOMAIN jsonSchema.fastify
  THEN jsonSchema.fastify[Template(r.method, r.routePath)]
  ELSE jsonSchema.fastify[Template(r.method, Slash)]

\* C8: for every route the resolution finds a fragment for, when the fragment
\* has a response map, the route's resolved schema.response is that map, status
\* code by status code.
C8_ResponseIsFragmentResponse ==
  \A i \in 1..Len(routes) :
    (Resolved(routes[i]) /\ ~NoFragmentFor(routes[i]) /\ FragmentOf(routes[i]).response.def)
    => /\ routes[i].schema.def
       /\ "response" \in DOMAIN routes[i].schema.val
       /\ DOMAIN routes[i].schema.val.response = DOMAIN FragmentOf(routes[i]).response.val
       /\ \A st \in DOMAIN FragmentOf(routes[i]).response.val :
            routes[i].schema.val.response[st] = FragmentOf(routes[i]).response.val[st]

C8_Witness ==
  \E i \in 1..Len(routes) :
    /\ Resolved(routes[i])
    /\ ~NoFragmentFor(routes[i])
    /\ FragmentOf(routes[i]).response.def
    /\ routes[i].declared.def
    /\ "response" \in DOMAIN routes[i].declared.val
    /\ routes[i].declared.val.response # FragmentOf(routes[i]).response.val

\* the part of a declaration key before its first space
MethodToken(k) ==
  IF \E i \in 1..Len(k) : k[i] = " "
  THEN SubSeq(k, 1, (CHOOSE i \in 1..Len(k) : k[i] = " " /\ \A j \in 1..(i - 1) : k[j] # " ") - 1)
  ELSE k

IsVerb(k) == ToUpperCase(MethodToken(k)) \in httpMethods

\* C10: an entry passes method validation exactly when its method token,
\* upper-cased, is one of the seven verbs: every entry the loop went past has
\* such a token, the entry the loop rejected for its method has not, and a
\* route registered for an entry carries the upper-cased token as its method.
C10_MethodValidation ==
  /\ \A i \in 1..Len(service) :
       service[i].own =>
         /\ (pc \in {"loop", "done", "failed"} /\ i < idx) => IsVerb(service[i].key)
         /\ (pc = "failed" /\ i = idx /\ error.kind = "WrongConfiguration") => ~IsVerb(service[i].key)
         /\ (pc = "failed" /\ i = idx /\ error.kind \in {"UnknownHandler", "TypeError"})
              => IsVerb(service[i].key)
  /\ \A i \in 1..Len(routes) :
       routes[i].from > 0 =>
         /\ routes[i].opts.method = ToUpperCase(MethodToken(service[routes[i].from].key))
         /\ routes[i].opts.method \in httpMethods

C10_Witness ==
  /\ pc = "failed"
  /\ error.kind = "WrongConfiguration"
  /\ \E i \in 1..Len(routes) :
       /\ routes[i].from > 0
       /\ MethodToken(service[routes[i].from].key) # routes[i].opts.method

\* addSchema threw inside the registration loop: idx is the entry it threw on
LoopFailed == pc = "failed" /\ "onRoute" \in Range(hooks)

\* the text t occurs in the text s
Contains(s, t) == \E i \in 0..(Len(s) - Len(t)) : SubSeq(s, i + 1, i + Len(t)) = t

\* C11: registration never completes over an entry whose method token is not a
\* recognized verb, and when it stops on such an entry the error message is
\* "Wrong configuration for <key>, method [<token>] is unknown HTTP method",
\* with the declaration key and the token as written in the key.
C11_UnknownMethodNamed ==
  /\ pc = "done" => \A i \in 1..Len(service) : service[i].own => IsVerb(service[i].key)
  /\ (LoopFailed /\ ~IsVerb(service[idx].key))
     => /\ Message(error) = WrongConfigurationFor \o service[idx].key \o WrongConfigurationMethod
                              \o MethodToken(service[idx].key) \o WrongConfigurationUnknown
        /\ Contains(Message(error), service[idx].key)
        /\ Contains(Message(error), MethodToken(service[idx].key))

C11_Witness ==
  /\ LoopFailed
  /\ idx = 2
  /\ ~IsVerb(service[idx].key)
  /\ MethodToken(service[idx].key) # EmptyStr
  /\ MethodToken(service[idx].key) # ToUpperCase(MethodToken(service[idx].key))

\* a declaration value that is neither a function nor an object with a handler field
OtherShape(h) == ~(h.type = "function" \/ (h.type = "object" /\ "handler" \in DOMAIN h.fields))

\* C12: every entry with a recognized verb whose value is neither a function
\* nor an object with a handler field stops registration with the error
\* "Unknown handler", and no route is registered for it.
C12_OtherShapesAreUnknownHandler ==
  \A i \in 1..Len(service) :
    ( /\ service[i].own
      /\ IsVerb(service[i].key)
      /\ OtherShape(service[i].handler)
      /\ "onRoute" \in Range(hooks)
      /\ idx > i \/ (idx = i /\ pc = "failed") )
    => /\ pc = "failed"
       /\ idx = i
       /\ Message(error) = UnknownHandlerMessage
       /\ \A r \in 1..Len(routes) : routes[r].from # i

\* C13: every error addSchema raises while registering the declaration (unknown
\* method token, malformed handler entry) carries a message that names the
\* key of the entry it stopped on.
C13_StartupErrorsNameKey ==
  (LoopFailed /\ error.kind \in {"WrongConfiguration", "UnknownHandler"})
  => Contains(Message(error), service[idx].key)

\* the security map has an entry under the key the hook builds for the route
HasSecurity(r) ==
  swaggerSecurityMap.def /\ Template(r.method, r.routePath) \in DOMAIN swaggerSecurityMap.val

\* C14: when a fragment is found, the resolved schema has exactly the keys of
\* the explicit schema, security (if the security map has an entry for the
\* route's key), the fragment's request-shape properties and response (if the
\* fragment has one); each key has the value of the last of these sources, in
\* this order, that defines it.
C14_MergePrecedence ==
  \A i \in 1..Len(routes) :
    (Resolved(routes[i]) /\ ~NoFragmentFor(routes[i]))
    => LET r == routes[i]
           f == FragmentOf(r)
           explicit == IF r.declared.def THEN DOMAIN r.declared.val ELSE {}
           props == IF f.props.def THEN DOMAIN f.props.val ELSE {}
       IN /\ r.schema.def
          /\ DOMAIN r.schema.val =
               explicit \cup (IF HasSecurity(r) THEN {"security"} ELSE {})
                        \cup props \cup (IF f.response.def THEN {"response"} ELSE {})
          /\ \A k \in DOMAIN r.schema.val :
               r.schema.val[k] =
                 IF k = "response" /\ f.response.def THEN f.response.val
                 ELSE IF k \in props THEN f.props.val[k]
                 ELSE IF k = "security" /\ HasSecurity(r)
                      THEN swaggerSecurityMap.val[Template(r.method, r.routePath)]
                 ELSE r.declared.val[k]

C14_Witness ==
  \E i \in 1..Len(routes) :
    /\ Resolved(routes[i])
    /\ ~NoFragmentFor(routes[i])
    /\ HasSecurity(routes[i])
    /\ routes[i].declared.def
    /\ FragmentOf(routes[i]).props.def
    /\ "security" \in DOMAIN routes[i].declared.val
    /\ "security" \in DOMAIN FragmentOf(routes[i]).props.val
    /\ ~FragmentOf(routes[i]).response.def
    /\ "response" \in DOMAIN routes[i].declared.val
    /\ routes[i].schema.val.response = routes[i].declared.val.response

\* C15: a route the schema table has no fragment for (also after the root-path
\* fallbacks) has, after the resolution, the schema it was declared with, and
\* none if it was declared with none.
C15_NoFragmentKeepsDeclared ==
  \A i \in 1..Len(routes) :
    NoFragmentFor(routes[i]) => routes[i].schema = routes[i].declared

\* the part of a declaration key after its first space (nothing if it has none)
AfterFirstSpace(k) ==
  IF \E i \in 1..Len(k) : k[i] = " "
  THEN SubSeq(k, (CHOOSE i \in 1..Len(k) : k[i] = " " /\ \A j \in 1..(i - 1) : k[j] # " ") + 1, Len(k))
  ELSE EmptyStr

\* C17 as claimed: every route registered for a declaration key has as method
\* the text before the key's first space and as path the text after it.
C17_KeySplitAsWritten ==
  \A i \in 1..Len(routes) :
    routes[i].from > 0
    => /\ routes[i].opts.method = MethodToken(service[routes[i].from].key)
       /\ routes[i].opts.url = AfterFirstSpace(service[routes[i].from].key)

\* C17, amended: every route registered for a declaration key has as method
\* the upper-cased text before the key's first space and as path exactly the
\* text after the first space, further spaces included.
C17_KeySplitUpperCased ==
  \A i \in 1..Len(routes) :
    routes[i].from > 0
    => /\ routes[i].opts.method = ToUpperCase(MethodToken(service[routes[i].from].key))
       /\ routes[i].opts.url = AfterFirstSpace(service[routes[i].from].key)

C17_Witness ==
  \E i, j \in 1..Len(routes) :
    /\ routes[i].from > 0
    /\ routes[j].from > 0
    /\ i # j
    /\ Contains(routes[i].opts.url, <<" ">>)
    /\ routes[i].opts.method # MethodToken(service[routes[i].from].key)
    /\ Len(routes[j].opts.url) > 0
    /\ routes[j].opts.url[1] = " "

\* C18: the route registered for an object value with a handler field has the
\* object's handler, the method and path computed from the key (whatever
\* method or url the object holds), and every other field of the object, and
\* nothing else.
C18_ObjectEntryRegistered ==
  \A i \in 1..Len(routes) :
    ( /\ routes[i].from > 0
      /\ service[routes[i].from].handler.type = "object"
      /\ "handler" \in DOMAIN service[routes[i].from].handler.fields )
    => LET fields == service[routes[i].from].handler.fields
           key == service[routes[i].from].key
           opts == routes[i].opts
       IN /\ DOMAIN opts = DOMAIN fields \cup {"handler", "method", "url"}
          /\ opts.handler = fields.handler
          /\ opts.method = ToUpperCase(MethodToken(key))
          /\ opts.url = AfterFirstSpace(key)
          /\ \A k \in DOMAIN fields \ {"handler", "method", "url"} : opts[k] = fields[k]

C18_Witness ==
  \E i \in 1..Len(routes) :
    /\ routes[i].from > 0
    /\ service[routes[i].from].handler.type = "object"
    /\ {"handler", "method", "url", "schema"} \subseteq DOMAIN service[routes[i].from].handler.fields
    /\ service[routes[i].from].handler.fields.method # routes[i].opts.method
    /\ service[routes[i].from].handler.fields.url # routes[i].opts.url
    /\ routes[i].opts.schema = service[routes[i].from].handler.fields.schema

\* C21: a route registered under a prefix other than the prefix of the
\* instance addSchema was applied to leaves the resolution with the schema it
\* was declared with (or none), whatever the schema table holds for its key.
C21_OtherPrefixSkipped ==
  \A i \in 1..Len(routes) :
    routes[i].prefix # fastifyPrefix => routes[i].schema = routes[i].declared

C21_Witness ==
  \E i \in 1..Len(routes) :
    /\ routes[i].prefix # fastifyPrefix
    /\ "onRoute" \in Range(hooks)
    /\ Template(routes[i].method, routes[i].routePath) \in DOMAIN jsonSchema.fastify
    /\ HasSecurity(routes[i])
    /\ routes[i].declared.def

\* C22: when the fragment found for a route has no response map, the resolved
\* schema has the response the route was declared with, and no response key
\* if it was declared with none.
C22_ExplicitResponseKept ==
  \A i \in 1..Len(routes) :
    (Resolved(routes[i]) /\ ~NoFragmentFor(routes[i]) /\ ~FragmentOf(routes[i]).response.def)
    => LET r == routes[i]
           explicit == r.declared.def /\ "response" \in DOMAIN r.declared.val
       IN /\ r.schema.def
          /\ "response" \in DOMAIN r.schema.val <=> explicit
          /\ explicit => r.schema.val.response = r.declared.val.response

C22_Witness ==
  \E i, j \in 1..Len(routes) :
    /\ Resolved(routes[i]) /\ ~NoFragmentFor(routes[i]) /\ ~FragmentOf(routes[i]).response.def
    /\ routes[i].declared.def
    /\ "response" \in DOMAIN routes[i].declared.val
    /\ routes[i].schema.val # routes[i].declared.val
    /\ Resolved(routes[j]) /\ ~NoFragmentFor(routes[j]) /\ ~FragmentOf(routes[j]).response.def
    /\ ~routes[j].declared.def

\* an entry addSchema itself stops on: a method token that is no verb, a value
\* that is neither an object nor a function, or null
Malformed(e) ==
  \/ ~IsVerb(e.key)
  \/ e.handler.type \notin {"object", "function"}

C26_TablesNeverMutated ==
  [][ /\ jsonSchema' = jsonSchema
      /\ swaggerSecurityMap' = swaggerSecurityMap ]_vars

C26_Witness ==
  /\ pc = "done"
  /\ \E i, j \in 1..Len(routes) :
       /\ routes[i].from > 0
       /\ routes[j].from = 0
       /\ Resolved(routes[i]) /\ ~NoFragmentFor(routes[i]) /\ HasSecurity(routes[i])
       /\ Resolved(routes[j]) /\ ~NoFragmentFor(routes[j])
       /\ routes[i].schema.val.response = FragmentOf(routes[i]).response.val

\* jsonSchema.schema?.$id is truthy
TruthyId ==
  jsonSchema.schema.def /\ jsonSchema.schema.val.id.def /\ jsonSchema.schema.val.id.val # EmptyStr

\* C27: without a truthy $id addSchema fails at once with the missing-$id
\* error and the server has no schema, decorator, hook or route of it; with a
\* truthy $id the schema document is added once, and only it.
C27_MissingIdLeavesServerUntouched ==
  /\ ~TruthyId
     => /\ pc \in {"start", "failed"}
        /\ pc = "failed" => Message(error) = SchemaIgnoredMessage
        /\ schemas = <<>>
        /\ decorators = {}
        /\ hooks = <<>>
        /\ routes = <<>>
  /\ (TruthyId /\ pc # "start") => schemas = <<jsonSchema.schema.val>>

C27_Witness ==
  /\ pc = "failed"
  /\ jsonSchema.schema.def
  /\ jsonSchema.schema.val.id.def
  /\ jsonSchema.schema.val.id.val = EmptyStr
  /\ Len(service) > 0
  /\ error.kind = "SchemaIgnored"

\* C28: a route is registered only once the onRoute and onRequest hooks are
\* installed, and every route registered for the declaration is on the
\* instance's prefix and has been through the resolution: it has a schema
\* object, with the fragment's response if the table has one for it.
C28_HooksBeforeRoutes ==
  [][ /\ routes' # routes => {"onRoute", "onRequest"} \subseteq Range(hooks)
      /\ \A i \in 1..Len(routes') :
           routes'[i].from > 0
           => /\ Resolved(routes'[i])
              /\ routes'[i].schema.def
              /\ (~NoFragmentFor(routes'[i]) /\ FragmentOf(routes'[i]).response.def)
                 => /\ "response" \in DOMAIN routes'[i].schema.val
                    /\ routes'[i].schema.val.response = FragmentOf(routes'[i]).response.val ]_vars

C28_Witness ==
  \E i \in 1..Len(routes) :
    /\ routes[i].from = 1
    /\ ~routes[i].declared.def
    /\ ~NoFragmentFor(routes[i])
    /\ FragmentOf(routes[i]).response.def

\* C29: the resolution applied to a route that already has its resolved
\* schema (same method, routePath, prefix, table and security map) gives that
\* schema again.
C29_ResolutionIdempotent ==
  \A i \in 1..Len(routes) :
    "onRoute" \in Range(hooks)
    => onRoute([prefix |-> routes[i].prefix, method |-> routes[i].method,
                routePath |-> routes[i].routePath, schema |-> routes[i].schema])
         = routes[i].schema

C29_Witness ==
  \E i \in 1..Len(routes) :
    /\ Resolved(routes[i])
    /\ ~NoFragmentFor(routes[i])
    /\ HasSecurity(routes[i])
    /\ routes[i].declared.def
    /\ "security" \in DOMAIN routes[i].declared.val
    /\ routes[i].schema # routes[i].declared

\* C30: a resolved route without a fragment has a security key only if it was
\* declared with one, unchanged; with a fragment whose request properties
\* define no security key, its security is the security map's entry under
\* "<method> <routePath>" as registered, and without such an entry the
\* security it was declared with, if any.
C30_SecurityOnlyWithFragmentAndEntry ==
  \A i \in 1..Len(routes) :
    Resolved(routes[i])
    => LET r == routes[i]
           explicit == r.declared.def /\ "security" \in DOMAIN r.declared.val
           fromMap == /\ ~NoFragmentFor(r)
                      /\ HasSecurity(r)
           fromProps == /\ ~NoFragmentFor(r)
                        /\ FragmentOf(r).props.def
                        /\ "security" \in DOMAIN FragmentOf(r).props.val
       IN /\ r.schema.def
          /\ "security" \in DOMAIN r.schema.val <=> (explicit \/ fromMap \/ fromProps)
          /\ (fromMap /\ ~fromProps)
             => r.schema.val.security = swaggerSecurityMap.val[Template(r.method, r.routePath)]
          /\ (explicit /\ ~fromMap /\ ~fromProps)
             => r.schema.val.security = r.declared.val.security

C30_Witness ==
  \E i, j \in 1..Len(routes) :
    /\ Resolved(routes[i]) /\ Resolved(routes[j])
    /\ routes[i].routePath = EmptyStr
    /\ ~NoFragmentFor(routes[i])
    /\ ~HasSecurity(routes[i])
    /\ swaggerSecurityMap.def
    /\ Template(routes[i].method, Slash) \in DOMAIN swaggerSecurityMap.val
    /\ "security" \notin DOMAIN routes[i].schema.val
    /\ routes[j].routePath = Slash
    /\ "security" \in DOMAIN routes[j].schema.val

-----------------------------------------------------------------------------
(* Claims about the reply contract *)

\* the header names the response schema of a status requires
RequiredHeaders(op, st) ==
  IF st \in DOMAIN op /\ op[st].headers.def THEN op[st].headers.val.req ELSE {}

\* C3: a send or redirect call made once the reply was sent is rejected, so
\* nothing is handed to the server a second time for the same request.
C3_SecondSendRejected ==
  /\ (last.op \in {"send", "redirect"} /\ last.before.sent) => ~last.accepted
  /\ Len(handed) <= 1

\* C4: when the response schema of the selected status requires headers, a
\* send with one of them absent from the accumulated headers is rejected, and
\* a sent reply has every header its status requires.
C4_SentOnlyWithRequiredHeaders ==
  /\ (last.op = "send" /\ last.accepted)
       => RequiredHeaders(req.op, last.before.status) \subseteq DOMAIN last.before.headers
  /\ reply.sent => RequiredHeaders(req.op, reply.status) \subseteq DOMAIN reply.headers

IsLabelOf(label, request) ==
  LET m == request.method
      p == Text(request.routerPath)
  IN /\ Len(label) = Len(m) + 1 + Len(p)
     /\ \A i \in 1..Len(m) : label[i] = m[i]
     /\ label[Len(m) + 1] = " "
     /\ \A i \in 1..Len(p) : label[Len(m) + 1 + i] = p[i]

\* C6: matches(label) is true exactly when label is "<request method> <request
\* routerPath>"; for any other label it is false, the handler goes on, and the
\* call changes neither the reply nor the request nor what was handed over.
C6_MatchesIffLabel ==
  [][ (last'.op = "matches" /\ last'.accepted /\ calls' = calls + 1)
        => /\ last'.result <=> IsLabelOf(last'.arg, req)
           /\ req' = req
           /\ reply' = reply
           /\ handed' = handed ]_vars

C6_Witness ==
  /\ last.op = "matches"
  /\ last.accepted
  /\ last.result
  /\ reply.sent
  /\ calls >= 2

\* C9: on a route none of whose statuses requires a response header, status(s)
\* followed by send(p), chained, as the handler's only calls, with a payload p
\* as the status declares it, sends the reply and hands exactly (s, no
\* headers, p) to the server.
C9_StatusThenSendIsSent ==
  ( /\ calls = 2
    /\ last.op = "send"
    /\ last.target = "chain"
    /\ last.before.status # 0
    /\ last.before.headers = EmptyObj
    /\ ~last.before.sent
    /\ \A st \in DOMAIN req.op : RequiredHeaders(req.op, st) = {}
    /\ last.arg.def <=> req.op[last.before.status].content )
  => /\ last.accepted
     /\ reply.sent
     /\ Len(handed) = 1
     /\ handed[1].status = last.before.status
     /\ handed[1].headers = EmptyObj
     /\ handed[1].payload = last.arg

\* C16: a request leaves the server's dispatch only through the onRequest
\* hook and only into its handler (the hook never fails the request); from
\* the moment the handler starts, operationPath is "<method> <routerPath>"
\* of the request, and nothing sets it again while the request is handled.
C16_OperationPathBeforeHandler ==
  [][ /\ (req.phase = "received" /\ req'.phase # "received")
         => /\ req'.phase = "handler"
            /\ req'.method = req.method
            /\ req'.routerPath = req.routerPath
            /\ ~req.operationPath.def
      /\ req'.phase \in {"handler", "rejected"}
         => /\ req'.operationPath.def
            /\ IsLabelOf(req'.operationPath.val, req')
      /\ (req.phase \in {"handler", "rejected"} /\ req'.phase \in {"handler", "rejected"})
         => req'.operationPath = req.operationPath ]_vars

C16_Witness ==
  /\ req.phase = "handler"
  /\ req.routerPath.def
  /\ Contains(req.routerPath.val, <<" ">>)
  /\ req.operationPath.def
  /\ calls >= 1

\* C19: the value of an asReply call is the reply it is made on, and the call
\* leaves status, headers and sent of the reply, the request and what was
\* handed to the server as they were, whatever the reply's state.
C19_AsReplyIsIdentity ==
  [][ (last'.op = "asReply" /\ last'.accepted /\ calls' = calls + 1)
        => /\ last'.result = reply
           /\ reply' = reply
           /\ handed' = handed
           /\ req' = req ]_vars

C19_Witness ==
  /\ last.op = "asReply"
  /\ last.accepted
  /\ last.result.sent
  /\ last.result.status # 0
  /\ last.result.headers # EmptyObj
  /\ reply = last.result


\* C25: a handler's call moves the reply to Sent only if it is send or
\* redirect; status, code, header, headers, matches and asReply leave sent as
\* it is; and once the reply is Sent no call changes its status or headers.
C25_ReplyStateMachine ==
  [][ calls' = calls + 1
      => /\ (reply'.sent /\ ~reply.sent) => last'.op \in {"send", "redirect"}
         /\ last'.op \in {"status", "code", "header", "headers", "matches", "asReply"}
            => reply'.sent = reply.sent
         /\ reply.sent => (reply'.status = reply.status /\ reply'.headers = reply.headers) ]_vars


====
